---- MODULE Spec2Model ----
(***************************************************************************)
(* Model of src/updatedStreamlit.py: the upload / poll / replace           *)
(* lifecycle of the Gemini video file kept in st.session_state, and the    *)
(* analysis step with its JSON payload extraction.                         *)
(*                                                                         *)
(* Texts are sequences of characters, one string per character.           *)
(***************************************************************************)
EXTENDS Integers, Sequences, FiniteSets, TLC

VARIABLES
    selected,      \* uploaded_video: the file held by st.file_uploader
    slot,          \* st.session_state.gemini_video_file
    uploadCalls,   \* number of client.files.upload calls made so far
    remote,        \* ids of the files the backend created
    deleteIssued,  \* ids for which client.files.delete was called
    pc,            \* position of the running pass: "idle", "sleep", "get"
    cur,           \* uploaded_file inside upload_and_process_video
    polls,         \* client.files.get calls of the current wait (saturating)
    lastPoll,      \* answer of the latest client.files.get of the current wait
    trig,          \* what started the current pass of main()
    prevSlot,      \* the slot when the current pass started
    calls,         \* delete / upload calls of the current pass, in order
    ret,           \* outcome of the latest upload_and_process_video
    lastGen,       \* state of the file given to generate_content in this pass
    result,        \* what the analysis section rendered in this pass
    input,         \* raw_text, the argument of extract_json_payload
    parts,         \* the pieces raw_text was written from
    extracted      \* what extract_json_payload(raw_text) gave

vars == <<selected, slot, uploadCalls, remote, deleteIssued, pc, cur, polls,
          lastPoll, trig, prevSlot, calls, ret, lastGen, result, input, parts,
          extracted>>

----------------------------------------------------------------------------
(* Bounds *)

MaxUploads == 3
MaxPolls == 4
MaxTextLen == 7
MaxPre == 3

----------------------------------------------------------------------------
(* Text helpers *)

WS == {" ", "\n"}

Min(S) == CHOOSE x \in S : \A y \in S : x <= y

Max(S) == CHOOSE x \in S : \A y \in S : x >= y

\* s[i..j], both inclusive; empty when j < i
Sub(s, i, j) == [k \in 1..(j - i + 1) |-> s[i + k - 1]]

AllWs(s, i, j) == \A k \in i..j : s[k] \in WS

\* str.strip()
Strip(s) ==
    LET keep == {k \in 1..Len(s) : s[k] \notin WS}
    IN  IF keep = {} THEN <<>> ELSE Sub(s, Min(keep), Max(keep))

\* the backquote character (the string lexer has no way to write it)
Tick == "BACKQUOTE"

Ticks(s, i) ==
    /\ i >= 1
    /\ i + 2 <= Len(s)
    /\ s[i] = Tick /\ s[i + 1] = Tick /\ s[i + 2] = Tick

HasTag(s, i) ==
    /\ i + 3 <= Len(s)
    /\ s[i] = "j" /\ s[i + 1] = "s" /\ s[i + 2] = "o" /\ s[i + 3] = "n"

\* the pattern without its optional json tag
FenceTagsNone(s, i) == {0}

\* The pattern ```(?:json)?\s*([\s\S]*?)\s*``` matched at the opening
\* fence i: t is the length of the tag taken, p the start of the group,
\* e the end of the group (exclusive), followed by \s* and a closing fence.
FenceTags(s, i) == IF HasTag(s, i + 3) THEN {0, 4} ELSE {0}

FenceStarts(s, i, t) ==
    {p \in (i + 3 + t)..(Len(s) + 1) : AllWs(s, i + 3 + t, p - 1)}

FenceEnds(s, p) ==
    {e \in p..(Len(s) + 1) :
        \E k \in e..Len(s) : Ticks(s, k) /\ AllWs(s, e, k - 1)}

FenceMatchesAt(s, i, t) == {p \in FenceStarts(s, i, t) : FenceEnds(s, p) # {}}

\* re.search: the leftmost start; there the optional tag and the first \s*
\* are greedy, the group is lazy, the second \s* is greedy.
FenceSearch(s) ==
    LET opens == {i \in 1..Len(s) :
                    /\ Ticks(s, i)
                    /\ \E t \in FenceTags(s, i) : FenceMatchesAt(s, i, t) # {}}
        i0    == Min(opens)
        t0    == Max({t \in FenceTags(s, i0) : FenceMatchesAt(s, i0, t) # {}})
        p0    == Max(FenceMatchesAt(s, i0, t0))
        e0    == Min(FenceEnds(s, p0))
    IN  IF opens = {} THEN [found |-> FALSE, group |-> <<>>]
        ELSE [found |-> TRUE, group |-> Sub(s, p0, e0 - 1)]

\* an opening bracket taken without looking for its closing bracket
ListSearchUnclosed(s) ==
    LET opens == {i \in 1..Len(s) : s[i] = "["}
    IN  IF opens = {} THEN [found |-> FALSE, group |-> <<>>]
        ELSE [found |-> TRUE, group |-> Sub(s, Min(opens), Len(s))]

\* re.search(r'(\[.*?\])', text, re.DOTALL): leftmost "[", then the
\* nearest "]" after it.
ListSearch(s) ==
    LET opens == {i \in 1..Len(s) :
                    s[i] = "[" /\ \E j \in (i + 1)..Len(s) : s[j] = "]"}
        i0    == Min(opens)
        j0    == Min({j \in (i0 + 1)..Len(s) : s[j] = "]"})
    IN  IF opens = {} THEN [found |-> FALSE, group |-> <<>>]
        ELSE [found |-> TRUE, group |-> Sub(s, i0, j0)]

\* extract_json_payload: the payload, or the ValueError it raises
extract_json_payload(raw_text) ==
    LET text  == Strip(raw_text)
        fence == FenceSearch(text)
        list  == ListSearch(text)
    IN  IF text = <<>>
        THEN [ok |-> FALSE, payload |-> <<>>, reason |-> "EmptyResponse"]
        ELSE IF fence.found
        THEN [ok |-> TRUE, payload |-> Strip(fence.group), reason |-> "none"]
        ELSE IF text[1] = "[" /\ text[Len(text)] = "]"
        THEN [ok |-> TRUE, payload |-> text, reason |-> "none"]
        ELSE IF list.found
        THEN [ok |-> TRUE, payload |-> Strip(list.group), reason |-> "none"]
        ELSE [ok |-> FALSE, payload |-> <<>>, reason |-> "NoJsonFound"]

----------------------------------------------------------------------------
(* json.loads on texts over the model's alphabet: numbers written with the *)
(* digit 1 and arrays of values, with whitespace between tokens.           *)

RECURSIVE IsJsonValue(_), IsJsonElems(_)

IsJsonValue(s) ==
    \/ Len(s) >= 1 /\ \A k \in 1..Len(s) : s[k] = "1"
    \/ /\ Len(s) >= 2
       /\ s[1] = "[" /\ s[Len(s)] = "]"
       /\ LET inner == Sub(s, 2, Len(s) - 1)
          IN  Strip(inner) = <<>> \/ IsJsonElems(inner)

IsJsonElems(s) ==
    \/ IsJsonValue(Strip(s))
    \/ \E k \in 1..Len(s) :
          /\ s[k] = ","
          /\ IsJsonValue(Strip(Sub(s, 1, k - 1)))
          /\ IsJsonElems(Sub(s, k + 1, Len(s)))

\* whether json.loads(s) returns (otherwise it raises json.JSONDecodeError,
\* a ValueError)
JsonLoads(s) == IsJsonValue(Strip(s))

----------------------------------------------------------------------------
(* Values *)

Names == {"a.mp4", "b.mp4"}

Contents == {1, 2}

\* uploaded_video is None
NoVideo == [name |-> "", bytes |-> 0]

Videos == [name : Names, bytes : Contents]

\* the File states the backend reports; only PROCESSING and FAILED are
\* named by the code, ACTIVE is the ready state
RemoteStates == {"PROCESSING", "ACTIVE", "FAILED", "STATE_UNSPECIFIED"}

\* the display_name of a File whose upload named no display name: the
\* uploaded path is the temporary file's, never the video's name
TmpName == "tmp"

\* gemini_video_file is None
NoFile == [id |-> 0, display_name |-> "", state |-> "", content |-> 0,
           src |-> ""]

\* a types.File: name (id), display_name, state; content and src are the
\* bytes and the video name written to the temporary file it was made from
File(id, dn, st, v) ==
    [id |-> id, display_name |-> dn, state |-> st, content |-> v.bytes,
     src |-> v.name]

Modes == {"Embodied Reasoning", "Structured Detection"}

NoTrig == [kind |-> "none", prompt |-> FALSE, mode |-> "Embodied Reasoning"]

NoText == <<"NONE">>

NoResult == [kind |-> "none", mode |-> "", resp |-> NoText, raw |-> NoText,
             payload |-> NoText, reason |-> "none"]

NoRet == [kind |-> "none", state |-> ""]

\* response.text of generate_content, a few texts of each shape
Responses ==
    { <<>>,
      <<" ", "\n">>,
      <<"x", " ", "x">>,
      <<"[", "1", ",", "1", "]">>,
      <<"[", "x", "]">>,
      <<"x", " ", "[", "1", "]", " ", "x">>,
      <<"x", "[", "[", "1", "]", "]">>,
      <<"x", Tick, Tick, Tick, "j", "s", "o", "n", "\n", "[", "1", "]", "\n",
        Tick, Tick, Tick, "x">>,
      <<Tick, Tick, Tick, "x", Tick, Tick, Tick>> }

\* client.models.generate_content raised
GenError == <<"ERROR">>

----------------------------------------------------------------------------
(* upload_and_process_video *)

\* line 81: what client.files.upload answers for video v
UploadOutcomes(v) ==
    {[ok |-> FALSE, state |-> "", display_name |-> ""]}
    \cup {[ok |-> TRUE, state |-> st, display_name |-> dn] :
            st \in RemoteStates, dn \in {v.name, TmpName}}

\* the wait given up without polling
LoopCondNever(f) == FALSE

\* line 85: the condition of the polling loop
LoopCond(f) == f.state = "PROCESSING"

\* lines 89-94: what is returned once the loop is left
ReturnValue(f) == IF f.state = "FAILED" THEN NoFile ELSE f

\* a failed client.files.get retried silently
PollStepRetry(f, ans) ==
    IF ans = "ERROR"
    THEN [loop |-> TRUE, value |-> f, raised |-> FALSE]
    ELSE LET g == [f EXCEPT !.state = ans]
         IN  IF LoopCond(g)
             THEN [loop |-> TRUE, value |-> g, raised |-> FALSE]
             ELSE [loop |-> FALSE, value |-> ReturnValue(g), raised |-> FALSE]

\* lines 85-101, one turn of the loop after client.files.get answered ans
\* ("ERROR": the call raised)
PollStep(f, ans) ==
    IF ans = "ERROR"
    THEN [loop |-> FALSE, value |-> NoFile, raised |-> FALSE]
    ELSE LET g == [f EXCEPT !.state = ans]
         IN  IF LoopCond(g)
             THEN [loop |-> TRUE, value |-> g, raised |-> FALSE]
             ELSE [loop |-> FALSE, value |-> ReturnValue(g), raised |-> FALSE]

----------------------------------------------------------------------------
(* main *)

\* line 126
NeedsUpload(s, v) == s = NoFile \/ s.display_name # v.name

\* the delete without its try / except: a failure leaves main
DeleteOldPropagates(s, ok) ==
    IF s # NoFile
    THEN [log |-> <<[op |-> "delete", id |-> s.id, ok |-> ok]>>,
          issued |-> {s.id}, raised |-> ~ok]
    ELSE [log |-> <<>>, issued |-> {}, raised |-> FALSE]

\* lines 128-133: the delete of the previous file; ok is whether
\* client.files.delete returned rather than raised
DeleteOld(s, ok) ==
    IF s # NoFile
    THEN [log |-> <<[op |-> "delete", id |-> s.id, ok |-> ok]>>,
          issued |-> {s.id}, raised |-> FALSE]
    ELSE [log |-> <<>>, issued |-> {}, raised |-> FALSE]

\* the inner handler catching the extraction error only: a payload that
\* json.loads rejects ends in the generic error branch, without the text
RenderParseUncaught(mode, t) ==
    LET e == extract_json_payload(t)
    IN  IF mode = "Structured Detection"
        THEN IF e.ok /\ JsonLoads(e.payload)
             THEN [kind |-> "json", mode |-> mode, resp |-> t, raw |-> NoText,
                   payload |-> e.payload, reason |-> "none"]
             ELSE IF e.ok
             THEN [kind |-> "exception", mode |-> mode, resp |-> t,
                   raw |-> NoText, payload |-> NoText, reason |-> "none"]
             ELSE [kind |-> "raw_text", mode |-> mode, resp |-> t, raw |-> t,
                   payload |-> NoText, reason |-> e.reason]
        ELSE [kind |-> "raw_text", mode |-> mode, resp |-> t, raw |-> t,
              payload |-> NoText, reason |-> "none"]

\* lines 192-203: what is rendered for the response text t
Render(mode, t) ==
    LET e == extract_json_payload(t)
    IN  IF mode = "Structured Detection"
        THEN IF e.ok /\ JsonLoads(e.payload)
             THEN [kind |-> "json", mode |-> mode, resp |-> t, raw |-> NoText,
                   payload |-> e.payload, reason |-> "none"]
             ELSE [kind |-> "raw_text", mode |-> mode, resp |-> t, raw |-> t,
                   payload |-> NoText,
                   reason |-> IF e.ok THEN "MalformedJson" ELSE e.reason]
        ELSE [kind |-> "raw_text", mode |-> mode, resp |-> t, raw |-> t,
              payload |-> NoText, reason |-> "none"]

\* Render on the texts of the model
RenderTable == [m \in Modes, t \in Responses |-> Render(m, t)]

\* lines 167-168: whether generate_content is called
CallsGenerate(s, t) == s # NoFile /\ t.kind = "click" /\ t.prompt

\* what generate_content may answer in a pass that calls it
GenOutcomes(s, t) ==
    IF CallsGenerate(s, t) THEN Responses \cup {GenError} ELSE {NoText}

\* lines 140-215: the analysis section, with the slot holding s
Analysis(s, t, out) ==
    IF s = NoFile
    THEN [gen |-> "none", result |-> [NoResult EXCEPT !.kind = "cannot_run"]]
    ELSE IF t.kind # "click"
    THEN [gen |-> "none", result |-> NoResult]
    ELSE IF ~t.prompt
    THEN [gen |-> "none", result |-> [NoResult EXCEPT !.kind = "no_prompt"]]
    ELSE IF out = GenError
    THEN [gen |-> s.state,
          result |-> [NoResult EXCEPT !.kind = "generation_error",
                                      !.mode = t.mode]]
    ELSE [gen |-> s.state, result |-> RenderTable[t.mode, out]]

\* lines 136-218: upload_and_process_video returned res
Finish(res, t) ==
    /\ slot' = res
    /\ ret' = [kind |-> IF res = NoFile THEN "None" ELSE "file",
               state |-> res.state]
    /\ pc' = "idle"
    /\ cur' = NoFile
    /\ \E out \in GenOutcomes(res, t) :
          LET a == Analysis(res, t, out)
          IN  lastGen' = a.gen /\ result' = a.result

\* an exception left main: the pass ends there
Abort(kind) ==
    /\ ret' = [kind |-> kind, state |-> ""]
    /\ pc' = "idle"
    /\ cur' = NoFile
    /\ lastGen' = "none"
    /\ result' = [NoResult EXCEPT !.kind = "exception"]
    /\ UNCHANGED slot

\* lines 126-136: delete the previous file, upload v, enter the wait
Submit(v, t) ==
    \E delOk \in (IF slot = NoFile THEN {TRUE} ELSE BOOLEAN),
       up \in UploadOutcomes(v) :
        LET d  == DeleteOld(slot, delOk)
            id == uploadCalls + 1
            f  == File(id, up.display_name, up.state, v)
        IN  /\ deleteIssued' = deleteIssued \cup d.issued
            /\ polls' = 0
            /\ lastPoll' = "none"
            /\ IF d.raised
               THEN /\ calls' = d.log
                    /\ Abort("main_raised")
                    /\ UNCHANGED <<uploadCalls, remote>>
               ELSE /\ uploadCalls' = id
                    /\ calls' = Append(d.log, [op |-> "upload",
                                    id |-> IF up.ok THEN id ELSE 0,
                                    ok |-> up.ok])
                    /\ remote' = IF up.ok THEN remote \cup {id} ELSE remote
                    /\ IF ~up.ok
                       THEN Finish(NoFile, t)
                       ELSE IF LoopCond(f)
                       THEN /\ pc' = "sleep"
                            /\ cur' = f
                            /\ ret' = NoRet
                            /\ lastGen' = "none"
                            /\ result' = NoResult
                            /\ UNCHANGED slot
                       ELSE Finish(ReturnValue(f), t)

\* one execution of main() with the uploader holding v, as far as the
\* polling loop
StartPass(v, t) ==
    /\ pc = "idle"
    /\ UNCHANGED <<input, parts, extracted>>
    /\ selected' = v
    /\ trig' = t
    /\ prevSlot' = slot
    /\ IF v = NoVideo
       THEN /\ calls' = <<>>
            /\ lastGen' = "none"
            /\ result' = NoResult
            /\ UNCHANGED <<slot, uploadCalls, remote, deleteIssued, pc, cur,
                           polls, lastPoll, ret>>
       ELSE IF ~NeedsUpload(slot, v)
       THEN /\ calls' = <<>>
            /\ \E out \in GenOutcomes(slot, t) :
                  LET a == Analysis(slot, t, out)
                  IN  lastGen' = a.gen /\ result' = a.result
            /\ UNCHANGED <<slot, uploadCalls, remote, deleteIssued, pc, cur,
                           polls, lastPoll, ret>>
       ELSE /\ uploadCalls < MaxUploads
            /\ Submit(v, t)

----------------------------------------------------------------------------
(* Actions *)

\* extract_json_payload has not been called
NotCalled == [ok |-> FALSE, payload |-> <<>>, reason |-> "not called"]

NoParts == [pre |-> <<>>, tag |-> <<>>, pad |-> <<>>, arr |-> <<>>,
            post |-> <<>>]

\* the session before its first pass
SessionInit ==
    /\ selected = NoVideo
    /\ slot = NoFile
    /\ uploadCalls = 0
    /\ remote = {}
    /\ deleteIssued = {}
    /\ pc = "idle"
    /\ cur = NoFile
    /\ polls = 0
    /\ lastPoll = "none"
    /\ trig = NoTrig
    /\ prevSlot = NoFile
    /\ calls = <<>>
    /\ ret = NoRet
    /\ lastGen = "none"
    /\ result = NoResult

Init ==
    /\ SessionInit
    /\ input = <<>>
    /\ parts = NoParts
    /\ extracted = NotCalled

\* the user puts a file into the uploader
ChooseFile ==
    \E v \in Videos :
        /\ v # selected
        /\ StartPass(v, [NoTrig EXCEPT !.kind = "choose"])

\* the user removes the file from the uploader
ClearFile ==
    /\ selected # NoVideo
    /\ StartPass(NoVideo, [NoTrig EXCEPT !.kind = "clear"])

\* the script runs again with the widgets as they are
Rerun == StartPass(selected, [NoTrig EXCEPT !.kind = "rerun"])

\* the user presses "Run Gemini Analysis" (rendered at line 167)
ClickRun ==
    /\ selected # NoVideo
    /\ slot # NoFile
    /\ \E p \in BOOLEAN, m \in Modes :
          StartPass(selected, [kind |-> "click", prompt |-> p, mode |-> m])

\* line 86: time.sleep(5)
Sleep ==
    /\ pc = "sleep"
    /\ pc' = "get"
    /\ UNCHANGED <<selected, slot, uploadCalls, remote, deleteIssued, cur,
                   polls, lastPoll, trig, prevSlot, calls, ret, lastGen,
                   result, input, parts, extracted>>

\* line 87: client.files.get, and the rest of the pass when the loop ends
GetState ==
    /\ pc = "get"
    /\ \E ans \in RemoteStates \cup {"ERROR"} :
          LET r == PollStep(cur, ans)
          IN  /\ polls' = IF polls < MaxPolls THEN polls + 1 ELSE polls
              /\ lastPoll' = ans
              /\ IF r.raised
                 THEN Abort("raised")
                 ELSE IF r.loop
                 THEN /\ pc' = "sleep"
                      /\ cur' = r.value
                      /\ UNCHANGED <<slot, ret, lastGen, result>>
                 ELSE Finish(r.value, trig)
    /\ UNCHANGED <<selected, uploadCalls, remote, deleteIssued, trig,
                   prevSlot, calls, input, parts, extracted>>

Next == ChooseFile \/ ClearFile \/ Rerun \/ ClickRun \/ Sleep \/ GetState

Spec == Init /\ [][Next]_vars

\* the script is a running thread: its sleep and its get call do return
FairSpec == Spec /\ WF_vars(Sleep) /\ WF_vars(GetState)

----------------------------------------------------------------------------
(* extract_json_payload on its own *)

TextChars == {"x", " ", "[", "]", Tick}

\* every text of at most n characters
TextsUpTo(n) == UNION {[1..k -> TextChars] : k \in 0..n}

\* line 195: extract_json_payload is called with the text
Extract ==
    /\ extracted = NotCalled
    /\ extracted' = extract_json_payload(input)
    /\ UNCHANGED <<selected, slot, uploadCalls, remote, deleteIssued, pc, cur,
                   polls, lastPoll, trig, prevSlot, calls, ret, lastGen,
                   result, input, parts>>

\* any text of at most MaxTextLen characters
ExtractInit ==
    /\ SessionInit
    /\ input \in TextsUpTo(MaxTextLen)
    /\ parts = NoParts
    /\ extracted = NotCalled

ExtractSpec == ExtractInit /\ [][Extract]_vars

\* JSON array texts, two of them holding a string of backquotes
Arrays ==
    { <<"[", "1", "]">>,
      <<"[", "\"", Tick, "\"", "]">>,
      <<"[", "\"", Tick, Tick, Tick, "\"", "]">> }

TagJson == <<"j", "s", "o", "n">>

Fence == <<Tick, Tick, Tick>>

\* what may follow the block: nothing, prose, a bracket, backquotes, a
\* second fenced block
Posts ==
    { <<>>,
      <<"x">>,
      <<" ">>,
      <<"]">>,
      <<Tick>>,
      <<Tick, Tick, Tick>>,
      <<"x", Tick, Tick, Tick, "[", "1", "]", Tick, Tick, Tick>> }

\* prose, a fenced block holding an array, prose
FencedText(q) ==
    q.pre \o Fence \o q.tag \o q.pad \o q.arr \o q.pad \o Fence \o q.post

FenceInit ==
    /\ SessionInit
    /\ parts \in [pre : TextsUpTo(MaxPre), tag : {<<>>, TagJson},
                   pad : {<<>>, <<"\n">>}, arr : Arrays,
                   post : Posts]
    /\ input = FencedText(parts)
    /\ extracted = NotCalled

FenceSpec == FenceInit /\ [][Extract]_vars

----------------------------------------------------------------------------
(* Claims *)

AwaitTerminates == (pc # "idle") ~> (pc = "idle")

\* C3: at most one remote file made through the slot has had no delete
\* issued for it
AtMostOneLive == Cardinality(remote \ deleteIssued) <= 1

\* C4: a pass that finds the slot holding the file made from the same name
\* and the same bytes calls neither delete nor upload and keeps the slot
IdempotentResubmit ==
    (/\ selected # NoVideo
     /\ prevSlot # NoFile
     /\ prevSlot.src = selected.name
     /\ prevSlot.content = selected.bytes)
    => (calls = <<>> /\ slot = prevSlot)

ReplaceDeletesThenUploads ==
    (/\ selected # NoVideo
     /\ prevSlot # NoFile
     /\ prevSlot.src # selected.name)
    => (/\ Len(calls) = 2
        /\ calls[1].op = "delete" /\ calls[1].id = prevSlot.id
        /\ calls[2].op = "upload"
        /\ prevSlot.id \in deleteIssued
        /\ ret.kind # "main_raised"
        /\ result.kind # "exception")

\* C6 witness: the delete of the previous file failed and the upload of the
\* differently named file was made all the same
ReplacedAfterFailedDelete ==
    /\ selected # NoVideo
    /\ prevSlot # NoFile
    /\ prevSlot.src # selected.name
    /\ Len(calls) = 2
    /\ ~calls[1].ok
    /\ calls[2].ok
    /\ slot # NoFile /\ slot.src = selected.name

\* C7: generate_content is only ever called with a file in state ACTIVE
\* (the ready state)
GenerateOnlyWhenReady == lastGen \in {"none", "ACTIVE"}

NoUploadWithoutSubmit ==
    (trig.kind = "rerun" /\ prevSlot = NoFile) => calls = <<>>

\* C10: a poll answered FAILED, or whose call failed, ends the wait at that
\* poll: None is returned, nothing is raised, the loop is left
PollFailureStopsWait ==
    lastPoll \in {"FAILED", "ERROR"}
    => (/\ pc = "idle"
        /\ ret.kind = "None"
        /\ slot = NoFile
        /\ result.kind # "exception")

\* C10 witness: two polls answered PROCESSING, the third FAILED
FailedOnThirdPoll ==
    /\ lastPoll = "FAILED"
    /\ polls = 3
    /\ pc = "idle"
    /\ ret.kind = "None"

\* a "[" with a "]" somewhere after it
HasBracketSpan(s) ==
    \E i \in 1..Len(s) : \E j \in (i + 1)..Len(s) : s[i] = "[" /\ s[j] = "]"

\* two triple backquotes that do not overlap
HasFencePair(s) ==
    \E i \in 1..Len(s) : \E k \in (i + 3)..Len(s) : Ticks(s, i) /\ Ticks(s, k)

\* three backquotes in a row somewhere in s
HasTripleTick(s) == \E i \in 1..Len(s) : Ticks(s, i)

\* C11 as stated: every text without a "[" ... "]" span, the empty text and
\* the text with a bracketless fenced block included, fails with NoJsonFound
\* and gives no payload
NoSpanFailsNoJsonFound ==
    (extracted # NotCalled /\ ~HasBracketSpan(input))
    => (~extracted.ok /\ extracted.reason = "NoJsonFound")

\* C11 as amended: a text without a "[" ... "]" span and without a pair of
\* triple backquotes gives no payload and fails with the empty-response
\* error when it is empty after stripping, with NoJsonFound otherwise
NoSpanNoFenceFails ==
    (extracted # NotCalled /\ ~HasBracketSpan(input) /\ ~HasFencePair(input))
    => (/\ ~extracted.ok
        /\ extracted.payload = <<>>
        /\ extracted.reason = IF \A k \in 1..Len(input) : input[k] \in WS
                              THEN "EmptyResponse" ELSE "NoJsonFound")

\* C11 witness: a text with both brackets but "]" before "[", and backquotes
\* that form no fenced block, failed with NoJsonFound
BracketsInWrongOrderFailed ==
    /\ extracted.reason = "NoJsonFound"
    /\ ~HasBracketSpan(input)
    /\ \E i \in 1..Len(input) : input[i] = "["
    /\ \E i \in 1..Len(input) : input[i] = "]"
    /\ HasTripleTick(input)

\* C12 as stated: the array of the fenced block is returned whatever stands
\* before and after the block and whatever the array holds
FencedArrayAlwaysReturned ==
    (extracted # NotCalled /\ parts # NoParts)
    => (extracted.ok /\ extracted.payload = parts.arr)

\* C12 as amended: the array of the fenced block is returned, whatever
\* brackets and single backquotes the prose holds, when the prose before the
\* block holds no triple backquote and does not end with a backquote, and
\* the array holds no triple backquote
FencedArrayReturned ==
    (/\ extracted # NotCalled
     /\ parts # NoParts
     /\ ~HasTripleTick(parts.pre)
     /\ (parts.pre = <<>> \/ parts.pre[Len(parts.pre)] # Tick)
     /\ ~HasTripleTick(parts.arr))
    => (extracted.ok /\ extracted.payload = parts.arr)

\* C12 witness: a json-tagged block after prose holding a bracket and a
\* backquote, followed by a backquote, gave its array
TaggedBlockInProseReturned ==
    /\ extracted.ok
    /\ parts.tag = TagJson
    /\ parts.pad # <<>>
    /\ \E i \in 1..Len(parts.pre) : parts.pre[i] = "["
    /\ \E i \in 1..Len(parts.pre) : parts.pre[i] = Tick
    /\ parts.post = <<Tick>>
    /\ \E i \in 1..Len(parts.arr) : parts.arr[i] = Tick
    /\ extracted.payload = parts.arr

====
